---- MODULE Spec2Model ----
(***************************************************************************)
(* A model of the exam application: the App component (src/App.tsx), which *)
(* owns the loaded exam, the busy flag, the grading results and the        *)
(* outstanding Transformation Service calls, and the ExamView component    *)
(* (src/components/ExamView.tsx), which owns the state of one attempt:     *)
(* index, answers, flags, countdown, palette and matching selections.      *)
(* The history list is operated from InputSection                          *)
(* (src/components/InputSection.tsx); ResultsOverlay                       *)
(* (src/components/ResultsOverlay.tsx) derives percentage and grade.       *)
(*                                                                         *)
(* Only guards written in the code count as guards: a `disabled`           *)
(* attribute, a conditional render, an early return.  Visual stacking of   *)
(* overlays is presentation and guards nothing.                            *)
(***************************************************************************)
EXTENDS Integers, Sequences, FiniteSets, Bags, TLC

VARIABLES
    loadingStatus,   \* App: 'idle' | 'parsing' | 'grading'
    exam,            \* App: the loaded exam, or NoExam (null)
    results,         \* App: the displayed GradingResult, or NoResults (null)
    error,           \* App: the error message, or NoError (null)
    history,         \* App: the list of stored exams
    apiKeyMissing,   \* App: whether the credential banner is shown
    credential,      \* where the page finds a Gemini key: "none" | "env" | "local" | "url"
    exam_history,    \* localStorage: the text under 'exam_history'
    editingId,       \* InputSection: id of the history row being renamed, or "null"
    calls,           \* bag of Transformation Service calls issued and not yet returned
    currentIndex,    \* ExamView: 0-based index of the question shown
    answers,         \* ExamView: question id -> answer string
    flags,           \* ExamView: set of flagged question ids
    timeLeft,        \* ExamView: remaining seconds
    isPaletteOpen,   \* ExamView: whether the palette drawer is open
    matchingState,   \* ExamView: question id -> (left item -> selected label)
    matchingOptions, \* ExamView: question id -> labelled, shuffled responses
    listeners        \* document: installed sets of copy/cut/paste/contextmenu handlers

keyVars     == <<apiKeyMissing, credential>>
appVars     == <<loadingStatus, exam, results, error, history, calls,
                 apiKeyMissing, credential, exam_history, editingId>>
sessionVars == <<currentIndex, answers, flags, timeLeft, isPaletteOpen,
                 matchingState, matchingOptions, listeners>>
vars        == <<loadingStatus, exam, results, error, history, calls,
                 apiKeyMissing, credential, exam_history, editingId,
                 currentIndex, answers, flags, timeLeft, isPaletteOpen,
                 matchingState, matchingOptions, listeners>>

----------------------------------------------------------------------------
(* Bounds of the model *)

\* Service calls that may be outstanding at once.
MaxOutstanding == 2

\* Seconds of a countdown the model follows at its start and again at its end.
MaxTicks == 1

\* The largest totalPoints of a grading result.
MaxPoints == 10

\* The most feedback items of a grading result.
MaxFeedback == 2

(* Program constants *)

\* ExamView.tsx:17  useState(exam.questions.length * 90)
SecondsPerQuestion == 90

\* String.fromCharCode(65 + idx): the labels of the shuffled responses.
Labels == <<"A", "B", "C", "D">>

Max(a, b) == IF a >= b THEN a ELSE b
Min(a, b) == IF a <= b THEN a ELSE b

----------------------------------------------------------------------------
(* The exams of the model: what the history holds.  Question ids follow    *)
(* the parse prompt ("q1", "q2", ...), so different exams share them.      *)

Pair(l, r) == [left |-> l, right |-> r]

Question(id, type, options, pairs) ==
    [id |-> id, type |-> type, options |-> options, matchingPairs |-> pairs]

ExamIds == {"e1", "e2", "e3", "e4", "e5"}

\* exam.questions
Questions(e) ==
    CASE e = "e1" -> << Question("q1", "MATCHING", <<>>,
                                 <<Pair("l1", "r1"), Pair("l2", "r2")>>),
                        Question("q2", "TRUE_FALSE", <<>>, <<>>) >>
      [] e = "e2" -> << Question("q1", "TRUE_FALSE", <<>>, <<>>),
                        Question("q2", "FILL_BLANK", <<>>, <<>>) >>
      [] e = "e3" -> << Question("q1", "MCQ", <<"o1", "o2">>, <<>>) >>
      [] e = "e4" -> << Question("q1", "TRUE_FALSE", <<>>, <<>>) >>
      [] e = "e5" -> << Question("q1", "FILL_BLANK", <<>>, <<>>) >>
      [] OTHER    -> << >>

\* Text a user types into a fill-in-blank or workout field.
Texts == {"", "x"}

\* createdAt: the Date.now() of the parse that made the exam.
CreatedAt(e) ==
    CASE e = "e1" -> 1 [] e = "e2" -> 2 [] e = "e3" -> 3
      [] e = "e4" -> 4 [] e = "e5" -> 5 [] OTHER -> 0

Exam(id, title) ==
    [id |-> id, title |-> title, questions |-> Questions(id), createdAt |-> CreatedAt(id)]

NoExam    == Exam("null", "null")
NoResults == [examId |-> "null"]
NoError   == "null"

QuestionCount(e) == Len(e.questions)

QuestionIds(e) == {e.questions[i].id : i \in 1..QuestionCount(e)}

\* The empty object {} and the assignment {...obj, [k]: v} on a Record<string,_>.
EmptyMap == [k \in {} |-> ""]

MapPut(m, k, v) == [x \in (DOMAIN m) \cup {k} |-> IF x = k THEN v ELSE m[x]]

----------------------------------------------------------------------------
(* JavaScript values used by handleMatchingChange.  An object keeps its    *)
(* string keys in insertion order, and JSON.stringify writes them in that  *)
(* order, so an object is a sequence of entries.                           *)

Entry(k, v) == [key |-> k, value |-> v]

ObjHas(o, k) == \E i \in 1..Len(o) : o[i].key = k

\* o[k] || ""
ObjGet(o, k) ==
    IF ObjHas(o, k) THEN o[CHOOSE i \in 1..Len(o) : o[i].key = k].value ELSE ""

\* { ...o, [k]: v }: an existing key keeps its place, a new key goes last.
ObjSet(o, k, v) ==
    IF ObjHas(o, k)
    THEN [i \in 1..Len(o) |-> IF o[i].key = k THEN Entry(k, v) ELSE o[i]]
    ELSE Append(o, Entry(k, v))

ObjKeys(o) == {o[i].key : i \in 1..Len(o)}

Quoted(s) == "\"" \o s \o "\""

RECURSIVE JsonMembers(_)
JsonMembers(o) ==
    IF o = <<>> THEN ""
    ELSE Quoted(o[1].key) \o ":" \o Quoted(o[1].value)
         \o (IF Len(o) > 1 THEN "," \o JsonMembers(Tail(o)) ELSE "")

\* JSON.stringify of an object whose values are strings.
JsonStringify(o) == "{" \o JsonMembers(o) \o "}"

Digits == <<"0", "1", "2", "3", "4", "5", "6", "7", "8", "9">>

\* JSON.stringify of a non-negative integer.
RECURSIVE NumberText(_)
NumberText(n) ==
    IF n < 10 THEN Digits[n + 1]
    ELSE NumberText(n \div 10) \o Digits[(n % 10) + 1]

\* JSON.stringify of an array whose elements have the given texts.
RECURSIVE JoinComma(_)
JoinComma(texts) ==
    IF texts = <<>> THEN ""
    ELSE texts[1] \o (IF Len(texts) > 1 THEN "," \o JoinComma(Tail(texts)) ELSE "")

JsonArray(texts) == "[" \o JoinComma(texts) \o "]"

\* JSON.stringify of a Question: the fields it has, in their order.
JsonQuestion(q) ==
    "{" \o Quoted("id") \o ":" \o Quoted(q.id)
    \o "," \o Quoted("type") \o ":" \o Quoted(q.type)
    \o (IF q.options = <<>> THEN ""
        ELSE "," \o Quoted("options") \o ":"
             \o JsonArray([i \in 1..Len(q.options) |-> Quoted(q.options[i])]))
    \o (IF q.matchingPairs = <<>> THEN ""
        ELSE "," \o Quoted("matchingPairs") \o ":"
             \o JsonArray([i \in 1..Len(q.matchingPairs) |->
                    JsonStringify(<<Entry("left", q.matchingPairs[i].left),
                                    Entry("right", q.matchingPairs[i].right)>>)]))
    \o "}"

\* JSON.stringify of an Exam as parseExamFromText builds it:
\* { ...parsed, id, createdAt }
JsonExam(e) ==
    "{" \o Quoted("title") \o ":" \o Quoted(e.title)
    \o "," \o Quoted("questions") \o ":"
    \o JsonArray([i \in 1..Len(e.questions) |-> JsonQuestion(e.questions[i])])
    \o "," \o Quoted("id") \o ":" \o Quoted(e.id)
    \o "," \o Quoted("createdAt") \o ":" \o NumberText(e.createdAt)
    \o "}"

\* JSON.stringify(history)
JsonHistory(h) == JsonArray([i \in 1..Len(h) |-> JsonExam(h[i])])

\* A save effect that stores the list it saw at the first render.
SaveHistoryInitial(h) == "[]"

\* The save effect, run after every render in which history changed:
\* localStorage.setItem('exam_history', JSON.stringify(history))
SaveHistory(h) == JsonHistory(h)

----------------------------------------------------------------------------
(* ExamView: derived values *)

\* disabled={isLoading}, isLoading = loadingStatus !== 'idle'
disabled == loadingStatus # "idle"

\* ExamView is rendered exactly when an exam is loaded.
mounted == exam # NoExam

currentQuestion == exam.questions[currentIndex + 1]

\* A render that throws unmounts the whole application: ExamView reads
\* currentQuestion.type of exam.questions[currentIndex] (undefined when the
\* index is past the last question) and ResultsOverlay reads
\* exam.questions.length of the exam! it is given (null when none is loaded).
\* From then on no handler runs and no state changes.
crashed ==
    \/ (exam # NoExam /\ currentIndex >= QuestionCount(exam))
    \/ (results # NoResults /\ exam = NoExam)

\* ExamView is on screen.
rendered == mounted /\ ~crashed

IsMatching(q) == q.type = "MATCHING" /\ q.matchingPairs # <<>>

MatchingIds(e) ==
    {e.questions[i].id : i \in {j \in 1..QuestionCount(e) : IsMatching(e.questions[j])}}

QuestionById(e, qid) ==
    e.questions[CHOOSE i \in 1..QuestionCount(e) : e.questions[i].id = qid]

\* A shuffle that may repeat one response and drop another.
IndexFunctions(n) == [1..n -> 1..n]

IndexPermutations(n) == {p \in [1..n -> 1..n] : \A i, j \in 1..n : p[i] = p[j] => i = j}

\* shuffled.map((text, idx) => ({ id: String.fromCharCode(65 + idx), text }))
LabelOptions(shuffled) ==
    [idx \in 1..Len(shuffled) |-> [id |-> Labels[idx], text |-> shuffled[idx]]]

\* The outcomes of [...rightSide].sort(() => Math.random() - 0.5), labelled.
ShuffledOptions(q) ==
    {LabelOptions([i \in 1..Len(q.matchingPairs) |-> q.matchingPairs[p[i]].right]) :
        p \in IndexPermutations(Len(q.matchingPairs))}

\* The values useMemo may compute for matchingOptions.
MatchingOptionMaps(e) ==
    {f \in [MatchingIds(e) -> UNION {ShuffledOptions(QuestionById(e, qid)) : qid \in MatchingIds(e)}] :
        \A qid \in MatchingIds(e) : f[qid] \in ShuffledOptions(QuestionById(e, qid))}

\* A lookup that falls back on the first response instead of "".
RightTextFirstOption(options, rightValue) ==
    IF \E i \in 1..Len(options) : options[i].id = rightValue
    THEN options[CHOOSE i \in 1..Len(options) : options[i].id = rightValue].text
    ELSE options[1].text

\* matchingOptions[questionId].find(o => o.id === rightValue)?.text || ""
RightText(options, rightValue) ==
    IF \E i \in 1..Len(options) : options[i].id = rightValue
    THEN options[CHOOSE i \in 1..Len(options) : options[i].id = rightValue].text
    ELSE ""

\* The state a freshly mounted ExamView starts from.
MountSession(e) ==
    /\ currentIndex' = 0
    /\ answers' = EmptyMap
    /\ flags' = {}
    /\ timeLeft' = QuestionCount(e) * SecondsPerQuestion
    /\ isPaletteOpen' = FALSE
    /\ matchingState' = EmptyMap
    /\ matchingOptions' \in MatchingOptionMaps(e)
    /\ listeners' = listeners + 1

\* No ExamView is rendered: its state does not exist.
UnmountSession ==
    /\ currentIndex' = 0
    /\ answers' = EmptyMap
    /\ flags' = {}
    /\ timeLeft' = 0
    /\ isPaletteOpen' = FALSE
    /\ matchingState' = EmptyMap
    /\ matchingOptions' = EmptyMap
    /\ listeners' = IF mounted THEN listeners - 1 ELSE listeners

----------------------------------------------------------------------------
(* ExamView: handlers *)

\* An answer map that keeps a question's first answer.
handleInputChangeKeepFirst(prev, questionId, value) ==
    IF questionId \in DOMAIN prev THEN prev ELSE MapPut(prev, questionId, value)

\* handleInputChange: setAnswers(prev => ({ ...prev, [questionId]: value }))
handleInputChange(prev, questionId, value) == MapPut(prev, questionId, value)

\* The value an input of the current question shows: answers[id] || ''
ShownAnswer == IF currentQuestion.id \in DOMAIN answers THEN answers[currentQuestion.id] ELSE ""

\* The MCQ radios, the True/False buttons, the fill-in-blank input and the
\* workout textarea all call handleInputChange(currentQuestion.id, value).
\* A radio or a text field raises onChange only for a value other than the
\* one it shows; a True/False button raises onClick for any click.
InputValues(q) ==
    CASE q.type = "MCQ"        -> {q.options[i] : i \in 1..Len(q.options)} \ {ShownAnswer}
      [] q.type = "TRUE_FALSE" -> {"True", "False"}
      [] q.type = "FILL_BLANK" -> Texts \ {ShownAnswer}
      [] q.type = "WORKOUT"    -> Texts \ {ShownAnswer}
      [] OTHER                 -> {}

\* An answer control that also moves on to the next question.
RecordAnswerAdvancing(value) ==
    /\ rendered
    /\ ~disabled
    /\ value \in InputValues(currentQuestion)
    /\ answers' = handleInputChange(answers, currentQuestion.id, value)
    /\ currentIndex' = Min(QuestionCount(exam) - 1, currentIndex + 1)
    /\ UNCHANGED <<appVars, listeners, flags, timeLeft, isPaletteOpen,
                   matchingState, matchingOptions>>

RecordAnswer(value) ==
    /\ rendered
    /\ ~disabled
    /\ value \in InputValues(currentQuestion)
    /\ answers' = handleInputChange(answers, currentQuestion.id, value)
    /\ UNCHANGED <<appVars, listeners, currentIndex, flags, timeLeft, isPaletteOpen,
                   matchingState, matchingOptions>>

\* const qState = prev[questionId] || {}
QState(prev, questionId) == IF questionId \in DOMAIN prev THEN prev[questionId] ELSE <<>>

\* A serialization that stores the selected label instead of its text.
MatchingJsonAnswerLabel(qState, options, leftItem, rightValue) ==
    JsonStringify(ObjSet(qState, leftItem, rightValue))

\* The string handleMatchingChange hands to handleInputChange:
\* JSON.stringify({ ...qState, [leftItem]: rightText })
MatchingJsonAnswer(qState, options, leftItem, rightValue) ==
    JsonStringify(ObjSet(qState, leftItem, RightText(options, rightValue)))

\* The values of a matching <select>: "" for "-", then the labels.
SelectValues(options) == {""} \cup {options[i].id : i \in 1..Len(options)}

\* handleMatchingChange(currentQuestion.id, pair.left, e.target.value), raised
\* by a <select> for a value other than the one it shows.
MatchingChange(leftItem, rightValue) ==
    /\ rendered
    /\ ~disabled
    /\ IsMatching(currentQuestion)
    /\ currentQuestion.id \in DOMAIN matchingOptions
    /\ LET questionId == currentQuestion.id
           options    == matchingOptions[questionId]
           qState     == QState(matchingState, questionId)
       IN /\ \E i \in 1..Len(currentQuestion.matchingPairs) :
                 currentQuestion.matchingPairs[i].left = leftItem
          /\ rightValue \in SelectValues(options) \ {ObjGet(qState, leftItem)}
          /\ answers' = handleInputChange(answers, questionId,
                            MatchingJsonAnswer(qState, options, leftItem, rightValue))
          /\ matchingState' = MapPut(matchingState, questionId,
                                     ObjSet(qState, leftItem, rightValue))
    /\ UNCHANGED <<appVars, listeners, currentIndex, flags, timeLeft, isPaletteOpen, matchingOptions>>

\* A flag button that can only set the flag.
ToggleFlagSetAddOnly(prev, questionId) == prev \cup {questionId}

\* toggleFlag: the flag button has no disabled attribute.
ToggleFlagSet(prev, questionId) ==
    IF questionId \in prev THEN prev \ {questionId} ELSE prev \cup {questionId}

ToggleFlag ==
    /\ rendered
    /\ flags' = ToggleFlagSet(flags, currentQuestion.id)
    /\ UNCHANGED <<appVars, listeners, currentIndex, answers, timeLeft, isPaletteOpen,
                   matchingState, matchingOptions>>

\* Previous: setCurrentIndex(prev => Math.max(0, prev - 1)),
\* disabled={currentIndex === 0 || disabled}
PreviousIndex(prev) == Max(0, prev - 1)

Previous ==
    /\ rendered
    /\ ~(currentIndex = 0 \/ disabled)
    /\ currentIndex' = PreviousIndex(currentIndex)
    /\ UNCHANGED <<appVars, listeners, answers, flags, timeLeft, isPaletteOpen,
                   matchingState, matchingOptions>>

\* A step forward that is not clamped to the last question.
NextIndexUnclamped(prev, n) == prev + 1

\* Next Question: rendered unless currentIndex === exam.questions.length - 1;
\* setCurrentIndex(prev => Math.min(exam.questions.length - 1, prev + 1))
NextIndex(prev, n) == Min(n - 1, prev + 1)

NextQuestion ==
    /\ rendered
    /\ currentIndex # QuestionCount(exam) - 1
    /\ ~disabled
    /\ currentIndex' = NextIndex(currentIndex, QuestionCount(exam))
    /\ UNCHANGED <<appVars, listeners, answers, flags, timeLeft, isPaletteOpen,
                   matchingState, matchingOptions>>

\* The header's palette button: setIsPaletteOpen(!isPaletteOpen)
TogglePalette ==
    /\ rendered
    /\ isPaletteOpen' = ~isPaletteOpen
    /\ UNCHANGED <<appVars, listeners, currentIndex, answers, flags, timeLeft,
                   matchingState, matchingOptions>>

\* "View All": setIsPaletteOpen(true)
ViewAll ==
    /\ rendered
    /\ isPaletteOpen' = TRUE
    /\ UNCHANGED <<appVars, listeners, currentIndex, answers, flags, timeLeft,
                   matchingState, matchingOptions>>

\* The drawer's backdrop and close button: setIsPaletteOpen(false)
ClosePalette ==
    /\ rendered
    /\ isPaletteOpen
    /\ isPaletteOpen' = FALSE
    /\ UNCHANGED <<appVars, listeners, currentIndex, answers, flags, timeLeft,
                   matchingState, matchingOptions>>

\* A palette cell: setCurrentIndex(idx); setIsPaletteOpen(false).
\* The cells are rendered while the palette is open and have no disabled attribute.
PaletteJump(idx) ==
    /\ rendered
    /\ isPaletteOpen
    /\ idx \in 0..(QuestionCount(exam) - 1)
    /\ currentIndex' = idx
    /\ isPaletteOpen' = FALSE
    /\ UNCHANGED <<appVars, listeners, answers, flags, timeLeft, matchingState, matchingOptions>>

\* A countdown that loses two seconds per tick.
TickTimeByTwo(prev) == Max(0, prev - 2)

\* The interval's callback: setTimeLeft(prev => Math.max(0, prev - 1))
TickTime(prev) == Max(0, prev - 1)

\* A timer that hands the attempt in when it reaches 0.
TimerTickAutoSubmit ==
    /\ rendered
    /\ ~(disabled \/ timeLeft <= 0)
    /\ timeLeft' = TickTime(timeLeft)
    /\ IF timeLeft' = 0
       THEN /\ loadingStatus' = "grading"
            /\ calls' = calls (+) SetToBag({[kind |-> "grade", exam |-> exam, answers |-> answers]})
       ELSE UNCHANGED <<loadingStatus, calls>>
    /\ UNCHANGED <<exam, results, error, history, keyVars, exam_history, editingId, currentIndex,
                   answers, flags, isPaletteOpen, matchingState, matchingOptions,
                   listeners>>

\* The timer effect: if (disabled || timeLeft <= 0) return; otherwise an
\* interval runs until disabled or timeLeft changes.
TimerTick ==
    /\ rendered
    /\ ~(disabled \/ timeLeft <= 0)
    /\ timeLeft' = TickTime(timeLeft)
    /\ UNCHANGED <<appVars, listeners, currentIndex, answers, flags, isPaletteOpen,
                   matchingState, matchingOptions>>

----------------------------------------------------------------------------
(* App: handlers and the returns of the service calls *)

\* A submission that fills in an empty answer for every unanswered question.
GradeCallEveryQuestion(e, a) ==
    [kind |-> "grade", exam |-> e,
     answers |-> [q \in QuestionIds(e) |-> IF q \in DOMAIN a THEN a[q] ELSE ""]]

\* getApiKey(), evaluated when the module loads: process.env.API_KEY, else
\* localStorage's 'gemini_api_key'.  A key in the page address is not read.
API_KEY == IF credential \in {"env", "local"} THEN "k" ELSE ""

\* The startup effect's hasKey: localStorage's 'gemini_api_key', the address's
\* ?key= parameter, or window.process?.env?.API_KEY -- which a key compiled
\* into process.env.API_KEY does not set.
hasKey == credential \in {"local", "url"}

\* What parseExamFromText and gradeExam throw when API_KEY is empty.
MissingKeyMessage ==
    "API Key is missing. If you are running this locally/offline, please set 'gemini_api_key' in localStorage."

\* gradeExam(exam, answers), issued and not yet returned.
GradeCall(e, a) == [kind |-> "grade", exam |-> e, answers |-> a]

Outstanding(kind) == {c \in BagToSet(calls) : c.kind = kind}

\* handleSubmitExam(answers): if (!exam) return; setLoadingStatus('grading');
\* await gradeExam(exam, answers).  With no API_KEY gradeExam throws before it
\* sends anything, and catch and finally run before the next event:
\* setError(err.message); setLoadingStatus('idle')
handleSubmitExam(a) ==
    /\ exam # NoExam
    /\ IF API_KEY = ""
       THEN /\ error' = MissingKeyMessage
            /\ loadingStatus' = "idle"
            /\ UNCHANGED calls
       ELSE /\ BagCardinality(calls) < MaxOutstanding
            /\ loadingStatus' = "grading"
            /\ calls' = calls (+) SetToBag({GradeCall(exam, a)})
            /\ UNCHANGED error
    /\ UNCHANGED <<exam, results, history, keyVars, exam_history, editingId, sessionVars>>

\* Finish Exam: rendered at the last question, disabled={disabled}; onSubmit(answers)
FinishExam ==
    /\ rendered
    /\ currentIndex = QuestionCount(exam) - 1
    /\ ~disabled
    /\ handleSubmitExam(answers)

\* Submit All: rendered in the open palette, no disabled attribute; onSubmit(answers)
SubmitAll ==
    /\ rendered
    /\ isPaletteOpen
    /\ handleSubmitExam(answers)

\* A FeedbackItem of the service's verdict.
FeedbackItem(questionId, isCorrect, pointsEarned) ==
    [questionId |-> questionId, isCorrect |-> isCorrect, pointsEarned |-> pointsEarned]

\* The GradingResult of a call: the service's verdict, score s of t points
\* with feedback items f, on the exam it was given.
GradingOf(c, s, t, f) ==
    [examId |-> c.exam.id, score |-> s, totalPoints |-> t, feedback |-> f]

\* gradeExam resolves: setResults(grading); finally setLoadingStatus('idle')
GradeSucceeds(c, s, t, f) ==
    /\ ~crashed
    /\ c \in Outstanding("grade")
    /\ results' = GradingOf(c, s, t, f)
    /\ loadingStatus' = "idle"
    /\ calls' = calls (-) SetToBag({c})
    /\ UNCHANGED <<exam, error, history, keyVars, exam_history, editingId, sessionVars>>

GradeErrorMessage == "Failed to parse grading results."

\* A failed grading whose handler has no finally clause.
GradeFailsStuck(c) ==
    /\ ~crashed
    /\ c \in Outstanding("grade")
    /\ error' = GradeErrorMessage
    /\ calls' = calls (-) SetToBag({c})
    /\ UNCHANGED <<loadingStatus, exam, results, history, keyVars, exam_history, editingId, sessionVars>>

\* A failed grading that throws the attempt's answers away.
GradeFailsDropAnswers(c) ==
    /\ ~crashed
    /\ c \in Outstanding("grade")
    /\ error' = GradeErrorMessage
    /\ loadingStatus' = "idle"
    /\ calls' = calls (-) SetToBag({c})
    /\ answers' = EmptyMap
    /\ UNCHANGED <<exam, results, history, keyVars, exam_history, editingId, currentIndex, flags,
                   timeLeft, isPaletteOpen, matchingState, matchingOptions, listeners>>

\* gradeExam rejects: setError(err.message || ...); finally setLoadingStatus('idle')
GradeFails(c) ==
    /\ ~crashed
    /\ c \in Outstanding("grade")
    /\ error' = GradeErrorMessage
    /\ loadingStatus' = "idle"
    /\ calls' = calls (-) SetToBag({c})
    /\ UNCHANGED <<exam, results, history, keyVars, exam_history, editingId, sessionVars>>

\* handleLoadExam(selectedExam): a history row of InputSection, which is
\* rendered while no exam is loaded.  ExamView mounts and InputSection, with
\* its editing state, unmounts.
LoadExam(i) ==
    /\ ~crashed
    /\ exam = NoExam
    /\ i \in 1..Len(history)
    /\ exam' = history[i]
    /\ results' = NoResults
    /\ error' = NoError
    /\ MountSession(history[i])
    /\ editingId' = "null"
    /\ UNCHANGED <<loadingStatus, history, calls, keyVars, exam_history>>

\* reset: the header logo, and NEW EXAM in the results overlay.  ExamView unmounts.
Reset ==
    /\ ~crashed
    /\ exam' = NoExam
    /\ results' = NoResults
    /\ error' = NoError
    /\ UnmountSession
    /\ UNCHANGED <<loadingStatus, history, calls, keyVars, exam_history, editingId>>

\* REVIEW ANSWERS in the results overlay: onClose = () => setResults(null)
CloseResults ==
    /\ ~crashed
    /\ results # NoResults
    /\ results' = NoResults
    /\ UNCHANGED <<loadingStatus, exam, error, history, calls, keyVars, exam_history, editingId, sessionVars>>

----------------------------------------------------------------------------
(* App: the exam library -- parsing raw text, renaming, deleting *)

\* s.trim(), on the strings the model types into a field.
Trim(s) == IF s = " " THEN "" ELSE s

\* Raw text a user submits for parsing.
RawTexts == {"x", " "}

\* parseExamFromText(text), issued and not yet returned.
ParseCall(text) == [kind |-> "parse", text |-> text]

\* err.message?.includes('Key'), on the messages a parse fails with.
IncludesKey(message) == message = MissingKeyMessage

\* InputSection.handleSubmit -> handleProcessInput(text), up to its await.
\* The form belongs to InputSection, rendered while no exam is loaded; its
\* button has disabled={disabled || !rawText.trim() || apiKeyMissing}, and
\* App passes InputSection no apiKeyMissing.  With no API_KEY
\* parseExamFromText throws before it sends anything, and catch and finally
\* run before the next event: setError(err.message); setApiKeyMissing(true);
\* setLoadingStatus('idle')
StartParse(text) ==
    /\ ~crashed
    /\ exam = NoExam
    /\ ~disabled
    /\ Trim(text) # ""
    /\ IF API_KEY = ""
       THEN /\ error' = MissingKeyMessage
            /\ apiKeyMissing' = (IF IncludesKey(MissingKeyMessage) THEN TRUE ELSE apiKeyMissing)
            /\ loadingStatus' = "idle"
            /\ UNCHANGED calls
       ELSE /\ BagCardinality(calls) < MaxOutstanding
            /\ loadingStatus' = "parsing"
            /\ error' = NoError
            /\ calls' = calls (+) SetToBag({ParseCall(text)})
            /\ UNCHANGED apiKeyMissing
    /\ UNCHANGED <<exam, results, history, credential, exam_history, editingId, sessionVars>>

HistoryIds(h) == {h[i].id : i \in 1..Len(h)}

\* JSON.parse of the text the service answers a parse call with: a title and
\* questions as the schema asks, alone or with an id and a createdAt of the
\* service's own.
ServiceOutputs ==
    {[title |-> "t4", questions |-> Questions("e4")],
     [title |-> "t4", questions |-> Questions("e4"), id |-> "e1", createdAt |-> 0]}

\* crypto.randomUUID() and, for the exam given that id, Date.now().
NewIds == {"e4"}

\* An exam object in which the service's own id and createdAt win.
ParsedExamKeepingOutput(parsed, id, now) ==
    [k \in DOMAIN parsed \cup {"id", "createdAt"} |->
        IF k \in DOMAIN parsed THEN parsed[k]
        ELSE IF k = "id" THEN id ELSE now]

\* return { ...parsed, id: crypto.randomUUID(), createdAt: Date.now() }
ParsedExam(parsed, id, now) ==
    [k \in DOMAIN parsed \cup {"id", "createdAt"} |->
        IF k = "id" THEN id
        ELSE IF k = "createdAt" THEN now
        ELSE parsed[k]]

\* The exams parseExamFromText returns.
ParsedExams == {ParsedExam(o, id, CreatedAt(id)) : o \in ServiceOutputs, id \in NewIds}

\* id: crypto.randomUUID() -- an id no exam of the application has.
FreshExams ==
    {e \in ParsedExams :
        e.id \notin HistoryIds(history) \cup {exam.id, results.examId}
                    \cup {c.exam.id : c \in Outstanding("grade")}}

\* A history that takes every parsed exam, whatever its id.
AddToHistoryAlways(prev, parsedExam) == <<parsedExam>> \o prev

\* setHistory(prev => prev.find(h => h.id === parsedExam.id) ? prev : [parsedExam, ...prev])
AddToHistory(prev, parsedExam) ==
    IF parsedExam.id \in HistoryIds(prev) THEN prev ELSE <<parsedExam>> \o prev

\* parseExamFromText resolves: setExam(parsedExam); setApiKeyMissing(false);
\* setHistory(...), after which the save effect stores the list; finally
\* setLoadingStatus('idle').  With no exam loaded ExamView mounts.  With an
\* exam loaded ExamView stays mounted and keeps its useState values; only
\* matchingOptions, memoized on exam.id, is computed again.
ParseSucceeds(c, parsedExam) ==
    /\ ~crashed
    /\ c \in Outstanding("parse")
    /\ parsedExam \in FreshExams
    /\ exam' = parsedExam
    /\ apiKeyMissing' = FALSE
    /\ history' = AddToHistory(history, parsedExam)
    /\ exam_history' = SaveHistory(history')
    /\ loadingStatus' = "idle"
    /\ calls' = calls (-) SetToBag({c})
    /\ IF exam = NoExam
       THEN MountSession(parsedExam)
       ELSE /\ matchingOptions' \in MatchingOptionMaps(parsedExam)
            /\ UNCHANGED <<currentIndex, answers, flags, timeLeft, isPaletteOpen,
                           matchingState, listeners>>
    /\ editingId' = "null"
    /\ UNCHANGED <<results, error, credential>>

\* err.message of a failed parse: the credential is missing, the service
\* rejects the call, or its output is not the JSON asked for.
ParseErrorMessages ==
    {MissingKeyMessage,
     "rejected",
     "Could not structure the exam content."}

\* A failed parse that also drops the loaded exam and the displayed results.
ParseFailsClearing(c, message) ==
    /\ ~crashed
    /\ c \in Outstanding("parse")
    /\ message \in ParseErrorMessages
    /\ error' = message
    /\ loadingStatus' = "idle"
    /\ calls' = calls (-) SetToBag({c})
    /\ exam' = NoExam
    /\ results' = NoResults
    /\ UnmountSession
    /\ UNCHANGED <<history, keyVars, exam_history, editingId>>

\* parseExamFromText rejects after its request was sent: setError(err.message
\* || ...); if (err.message?.includes('Key')) setApiKeyMissing(true); finally
\* setLoadingStatus('idle').  The missing-credential failure happens before
\* any request, in StartParse.
ParseFails(c, message) ==
    /\ ~crashed
    /\ c \in Outstanding("parse")
    /\ message \in ParseErrorMessages \ {MissingKeyMessage}
    /\ error' = message
    /\ apiKeyMissing' = (IF IncludesKey(message) THEN TRUE ELSE apiKeyMissing)
    /\ loadingStatus' = "idle"
    /\ calls' = calls (-) SetToBag({c})
    /\ UNCHANGED <<exam, results, history, credential, exam_history, editingId, sessionVars>>

\* A rename that also moves the renamed entry to the front of the list.
handleRenameHistoryToFront(prev, id, newTitle) ==
    SelectSeq([i \in 1..Len(prev) |-> [prev[i] EXCEPT !.title = newTitle]],
              LAMBDA item : item.id = id)
    \o SelectSeq(prev, LAMBDA item : item.id # id)

\* setHistory(prev => prev.map(item => item.id === id ? { ...item, title: newTitle } : item))
handleRenameHistory(prev, id, newTitle) ==
    [i \in 1..Len(prev) |->
        IF prev[i].id = id THEN [prev[i] EXCEPT !.title = newTitle] ELSE prev[i]]

\* if (exam && exam.id === id) setExam(prev => prev ? { ...prev, title: newTitle } : null)
handleRenameLoaded(e, id, newTitle) ==
    IF e # NoExam /\ e.id = id THEN [e EXCEPT !.title = newTitle] ELSE e

\* InputSection.startEditing on row i of the history list:
\* setEditingId(exam.id); setEditTitle(exam.title)
StartEditing(i) ==
    /\ ~crashed
    /\ exam = NoExam
    /\ i \in 1..Len(history)
    /\ editingId' = history[i].id
    /\ UNCHANGED <<loadingStatus, exam, results, error, history, calls, keyVars,
                   exam_history, sessionVars>>

\* A commit that hands every title, blank or not, to the rename operation.
SaveTitleUnchecked(i, editTitle) ==
    /\ ~crashed
    /\ exam = NoExam
    /\ i \in 1..Len(history)
    /\ editingId = history[i].id
    /\ history' = handleRenameHistory(history, history[i].id, editTitle)
    /\ exam' = handleRenameLoaded(exam, history[i].id, editTitle)
    /\ exam_history' = SaveHistory(history')
    /\ editingId' = "null"
    /\ UNCHANGED <<loadingStatus, results, error, calls, keyVars, sessionVars>>

\* InputSection.saveTitle(id), raised by Enter or blur in the title field of
\* row i, shown while editingId is the row's id, with editTitle as typed:
\* if (editTitle.trim()) onRenameExam(id, editTitle); setEditingId(null)
SaveTitle(i, editTitle) ==
    /\ ~crashed
    /\ exam = NoExam
    /\ i \in 1..Len(history)
    /\ editingId = history[i].id
    /\ IF Trim(editTitle) # ""
       THEN /\ history' = handleRenameHistory(history, history[i].id, editTitle)
            /\ exam' = handleRenameLoaded(exam, history[i].id, editTitle)
            /\ exam_history' = SaveHistory(history')
       ELSE UNCHANGED <<history, exam, exam_history>>
    /\ editingId' = "null"
    /\ UNCHANGED <<loadingStatus, results, error, calls, keyVars, sessionVars>>

\* A commit of a title that is not blank: the rename operation is called.
RenameExam(i, editTitle) ==
    /\ Trim(editTitle) # ""
    /\ SaveTitle(i, editTitle)

\* A delete that removes the first entry of the list, whatever its id.
handleDeleteExamFirst(prev, id) == Tail(prev)

\* setHistory(prev => prev.filter(item => item.id !== id))
handleDeleteExam(prev, id) == SelectSeq(prev, LAMBDA item : item.id # id)

\* InputSection.deleteItem on row i of the history list, confirmed.
DeleteExam(i) ==
    /\ ~crashed
    /\ exam = NoExam
    /\ i \in 1..Len(history)
    /\ history' = handleDeleteExam(history, history[i].id)
    /\ exam_history' = SaveHistory(history')
    /\ UNCHANGED <<loadingStatus, exam, results, error, calls, keyVars, editingId, sessionVars>>

----------------------------------------------------------------------------
(* ResultsOverlay: what it derives from the grading result *)

\* Math.round(n / d * 100 ...) is taken on a quotient: Math.round(n / d) for
\* n >= 0 and d > 0 is the nearest integer, a half going up.  For the totals
\* within MaxPoints + 1 the double (score / totalPoints) * 100 rounds as the
\* exact quotient does.
MathRound(n, d) == (2 * n + d) \div (2 * d)

\* const percentage = Math.round((results.score / results.totalPoints) * 100)
percentage(r) == MathRound(r.score * 100, r.totalPoints)

\* Grade boundaries that are exclusive.
getGradeStrict(pct) ==
    IF pct > 90 THEN "A+"
    ELSE IF pct > 80 THEN "A"
    ELSE IF pct > 70 THEN "B"
    ELSE IF pct > 60 THEN "C"
    ELSE "F"

getGrade(pct) ==
    IF pct >= 90 THEN "A+"
    ELSE IF pct >= 80 THEN "A"
    ELSE IF pct >= 70 THEN "B"
    ELSE IF pct >= 60 THEN "C"
    ELSE "F"

\* const isPassed = percentage >= 60
isPassed(pct) == pct >= 60

(* ExamView: the progress bar and the palette's answered mark *)

\* const progress = Math.round((Object.keys(answers).length / exam.questions.length) * 100)
progress == MathRound(Cardinality(DOMAIN answers) * 100, QuestionCount(exam))

\* Array.prototype.find with no match, and f?.x on it.
undefined == [questionId |-> "undefined"]

\* A lookup that takes the first feedback item, whatever its questionId.
FindFeedbackFirstItem(feedback, questionId) ==
    IF feedback = <<>> THEN undefined ELSE feedback[1]

\* const f = results.feedback.find(item => item.questionId === q.id)
FindFeedback(feedback, questionId) ==
    IF \E k \in 1..Len(feedback) : feedback[k].questionId = questionId
    THEN feedback[CHOOSE k \in 1..Len(feedback) :
                     /\ feedback[k].questionId = questionId
                     /\ \A j \in 1..(k - 1) : feedback[j].questionId # questionId]
    ELSE undefined

\* f?.isCorrect ? (the correct colours) : (the incorrect colours)
ShownCorrect(f) == f # undefined /\ f.isCorrect

\* {f?.pointsEarned ?? 0}
ShownPoints(f) == IF f = undefined THEN 0 ELSE f.pointsEarned

\* exam.questions.map((q, idx) => ...): the rows of the Detailed Breakdown.
Breakdown ==
    [idx \in 1..Len(exam.questions) |->
        LET q == exam.questions[idx]
            f == FindFeedback(results.feedback, q.id)
        IN [questionId |-> q.id, isCorrect |-> ShownCorrect(f), pointsEarned |-> ShownPoints(f)]]

\* Palette cell: const isAnswered = !!answers[q.id]
isAnswered(questionId) == questionId \in DOMAIN answers /\ answers[questionId] # ""

----------------------------------------------------------------------------
(* Specifications *)

\* The application after startup, with stored history h loaded and the
\* Gemini key found where cred says: setApiKeyMissing(!hasKey);
\* setHistory(JSON.parse(saved)), after which the save effect stores the list.
StartupWith(h, cred) ==
    /\ loadingStatus = "idle"
    /\ exam = NoExam
    /\ results = NoResults
    /\ error = NoError
    /\ history = h
    /\ calls = EmptyBag
    /\ credential = cred
    /\ apiKeyMissing = ~hasKey
    /\ exam_history = SaveHistory(h)
    /\ editingId = "null"
    /\ listeners = 0
    /\ currentIndex = 0
    /\ answers = EmptyMap
    /\ flags = {}
    /\ timeLeft = 0
    /\ isPaletteOpen = FALSE
    /\ matchingState = EmptyMap
    /\ matchingOptions = EmptyMap

\* Startup with the key in localStorage.
Startup(h) == StartupWith(h, "local")

\* An exam of h was loaded and left untouched until MaxTicks seconds remain:
\* the state LoadExam and QuestionCount * 90 - MaxTicks ticks lead to.
LateInCountdown(h) ==
    /\ loadingStatus = "idle"
    /\ \E i \in 1..Len(h) :
          /\ exam = h[i]
          /\ matchingOptions \in MatchingOptionMaps(h[i])
    /\ results = NoResults
    /\ error = NoError
    /\ history = h
    /\ calls = EmptyBag
    /\ credential = "local"
    /\ apiKeyMissing = ~hasKey
    /\ exam_history = SaveHistory(h)
    /\ editingId = "null"
    /\ listeners = 1
    /\ currentIndex = 0
    /\ answers = EmptyMap
    /\ flags = {}
    /\ timeLeft = MaxTicks
    /\ isPaletteOpen = FALSE
    /\ matchingState = EmptyMap

\* The seconds of a countdown the model follows: its first MaxTicks and its
\* last MaxTicks.
Observed ==
    \/ timeLeft > QuestionCount(exam) * SecondsPerQuestion - MaxTicks
    \/ timeLeft <= MaxTicks

AnswerValues == Texts \cup {"True", "False", "o1", "o2"}

SessionNext ==
    \/ \E v \in AnswerValues : RecordAnswer(v)
    \/ ToggleFlag
    \/ Previous
    \/ NextQuestion
    \/ TogglePalette
    \/ ViewAll
    \/ ClosePalette
    \/ \E idx \in 0..1 : PaletteJump(idx)
    \/ (Observed /\ TimerTick)

(* Attempts on the exams without a matching question, with submission and  *)
(* grading.                                                                *)

PlainHistory == <<Exam("e2", "t2"), Exam("e3", "t3")>>

\* The verdict the service returns in these attempts: 1 of 2 points.
PlainScores == {<<1, 2>>}

Init == Startup(PlainHistory)

Next ==
    \/ \E i \in 1..Len(history) : LoadExam(i)
    \/ Reset
    \/ CloseResults
    \/ FinishExam
    \/ SubmitAll
    \/ \E c \in BagToSet(calls), g \in PlainScores : GradeSucceeds(c, g[1], g[2], <<>>)
    \/ \E c \in BagToSet(calls) : GradeFails(c)
    \/ SessionNext

Spec == Init /\ [][Next]_vars

(* The same attempts, followed at the start of a countdown and at its end. *)

InitCountdown == Startup(PlainHistory) \/ LateInCountdown(PlainHistory)

SpecCountdown == InitCountdown /\ [][Next]_vars

(* Attempts on the exam with a matching question; the caller is busy while *)
(* a parse call, issued before the exam was loaded, is outstanding.        *)

MatchingHistory == <<Exam("e1", "t1")>>

InitMatching == Startup(MatchingHistory)

NextMatching ==
    \/ \E i \in 1..Len(history) : LoadExam(i)
    \/ Reset
    \/ \E l \in {"l1", "l2"}, v \in {""} \cup {Labels[i] : i \in 1..Len(Labels)} :
          MatchingChange(l, v)
    \/ \E text \in RawTexts : StartParse(text)
    \/ \E c \in BagToSet(calls), m \in ParseErrorMessages : ParseFails(c, m)
    \/ SessionNext

SpecMatching == InitMatching /\ [][NextMatching]_vars

(* The exam library: parsing, loading, renaming and deleting exams, with  *)
(* attempts on them submitted and graded.                                  *)

LibraryHistory == <<Exam("e1", "t1"), Exam("e3", "t3")>>

InitLibrary == Startup(LibraryHistory)

NextLibrary ==
    \/ \E text \in RawTexts : StartParse(text)
    \/ \E c \in BagToSet(calls), e \in ParsedExams : ParseSucceeds(c, e)
    \/ \E c \in BagToSet(calls), m \in ParseErrorMessages : ParseFails(c, m)
    \/ \E i \in 1..Len(history) : LoadExam(i)
    \/ Reset
    \/ CloseResults
    \/ FinishExam
    \/ SubmitAll
    \/ \E c \in BagToSet(calls), g \in PlainScores : GradeSucceeds(c, g[1], g[2], <<>>)
    \/ \E c \in BagToSet(calls) : GradeFails(c)
    \/ ToggleFlag
    \/ TogglePalette
    \/ \E idx \in 0..1 : PaletteJump(idx)
    \/ (Observed /\ TimerTick)

SpecLibrary == InitLibrary /\ [][NextLibrary]_vars

(* The history list: entries added by parsing, renamed, deleted, loaded.   *)

EditTitles == {"n", " "}

NextHistory ==
    \/ \E text \in RawTexts : StartParse(text)
    \/ \E c \in BagToSet(calls), e \in ParsedExams : ParseSucceeds(c, e)
    \/ \E c \in BagToSet(calls), m \in ParseErrorMessages : ParseFails(c, m)
    \/ \E i \in 1..Len(history) : StartEditing(i)
    \/ \E i \in 1..Len(history), t \in EditTitles : SaveTitle(i, t)
    \/ \E i \in 1..Len(history) : DeleteExam(i)
    \/ \E i \in 1..Len(history) : LoadExam(i)
    \/ Reset
    \/ ToggleFlag

SpecHistory == InitLibrary /\ [][NextHistory]_vars

(* Attempts on a one-question exam, graded with every score of every      *)
(* total up to MaxPoints.                                                  *)

ResultsHistory == <<Exam("e3", "t3")>>

AllScores == {<<s, t>> \in (0..MaxPoints) \X (1..MaxPoints) : s <= t}

InitResults == Startup(ResultsHistory)

NextResults ==
    \/ \E i \in 1..Len(history) : LoadExam(i)
    \/ \E v \in AnswerValues : RecordAnswer(v)
    \/ FinishExam
    \/ \E c \in BagToSet(calls), g \in AllScores : GradeSucceeds(c, g[1], g[2], <<>>)
    \/ CloseResults
    \/ Reset

SpecResults == InitResults /\ [][NextResults]_vars

(* Attempts on a two-question exam, graded with every feedback list of up  *)
(* to MaxFeedback items on its questions and on a question it lacks.       *)

FeedbackHistory == <<Exam("e2", "t2")>>

FeedbackItems ==
    {FeedbackItem(q, b, p) : q \in {"q1", "q2", "q9"}, b \in BOOLEAN, p \in 0..1}

FeedbackLists == UNION {[1..n -> FeedbackItems] : n \in 0..MaxFeedback}

InitFeedback == Startup(FeedbackHistory)

NextFeedback ==
    \/ \E i \in 1..Len(history) : LoadExam(i)
    \/ FinishExam
    \/ NextQuestion
    \/ \E c \in BagToSet(calls), g \in PlainScores, f \in FeedbackLists :
          GradeSucceeds(c, g[1], g[2], f)
    \/ CloseResults
    \/ Reset

SpecFeedback == InitFeedback /\ [][NextFeedback]_vars

(* The history list again, from startup on each value localStorage may     *)
(* hold under 'exam_history'.                                              *)

\* localStorage.getItem('exam_history'): null, or the text stored.
NoItem == <<>>

Item(text) == <<text>>

\* The histories an earlier visit may have stored.
StoredHistories == {<<>>, <<Exam("e3", "t3")>>, LibraryHistory}

SavedValues ==
    {NoItem, Item(""), Item("[{")} \cup {Item(JsonHistory(h)) : h \in StoredHistories}

\* JSON.parse(saved), on the texts of SavedValues; "SyntaxError" when it throws.
JsonParseHistory(text) ==
    IF \E h \in StoredHistories : JsonHistory(h) = text
    THEN CHOOSE h \in StoredHistories : JsonHistory(h) = text
    ELSE "SyntaxError"

\* The history after the startup effect: useState([]); const saved =
\* localStorage.getItem('exam_history'); if (saved) { try {
\* setHistory(JSON.parse(saved)) } catch (e) { console.error(...) } }
StartupHistory(saved) ==
    IF saved = NoItem \/ saved[1] = "" THEN <<>>
    ELSE IF JsonParseHistory(saved[1]) = "SyntaxError" THEN <<>>
    ELSE JsonParseHistory(saved[1])

InitStorage == \E saved \in SavedValues : Startup(StartupHistory(saved))

SpecStorage == InitStorage /\ [][NextHistory]_vars

(* The page opened with its Gemini key in each place it looks for one, or  *)
(* in none: parsing, and attempts on a stored exam.                        *)

Credentials == {"none", "env", "local", "url"}

CredentialHistory == <<Exam("e3", "t3")>>

InitCredential == \E cred \in Credentials : StartupWith(CredentialHistory, cred)

NextCredential ==
    \/ \E text \in RawTexts : StartParse(text)
    \/ \E c \in BagToSet(calls), e \in ParsedExams : ParseSucceeds(c, e)
    \/ \E c \in BagToSet(calls), m \in ParseErrorMessages : ParseFails(c, m)
    \/ \E i \in 1..Len(history) : LoadExam(i)
    \/ \E v \in AnswerValues : RecordAnswer(v)
    \/ TogglePalette
    \/ FinishExam
    \/ SubmitAll
    \/ \E c \in BagToSet(calls), g \in PlainScores : GradeSucceeds(c, g[1], g[2], <<>>)
    \/ \E c \in BagToSet(calls) : GradeFails(c)
    \/ CloseResults
    \/ Reset

SpecCredential == InitCredential /\ [][NextCredential]_vars

(* A stored multiple-choice exam is attempted while a parse call, issued    *)
(* before it was loaded, is outstanding.                                   *)

SwapHistory == <<Exam("e3", "t3")>>

InitSwap == Startup(SwapHistory)

NextSwap ==
    \/ \E text \in RawTexts : StartParse(text)
    \/ \E c \in BagToSet(calls), e \in ParsedExams : ParseSucceeds(c, e)
    \/ \E c \in BagToSet(calls), m \in ParseErrorMessages : ParseFails(c, m)
    \/ \E i \in 1..Len(history) : LoadExam(i)
    \/ \E v \in AnswerValues : RecordAnswer(v)
    \/ TogglePalette
    \/ SubmitAll
    \/ \E c \in BagToSet(calls) : GradeFails(c)
    \/ Reset

SpecSwap == InitSwap /\ [][NextSwap]_vars

----------------------------------------------------------------------------
(* Reading a stored matching answer back: JSON.parse, as the inverse of    *)
(* JsonStringify on the objects a matching question can produce.           *)

LeftItems == {"l1", "l2"}

LabelSet == {Labels[i] : i \in 1..Len(Labels)}

JsonValues == {""} \cup LabelSet \cup {"r1", "r2"}

JsonObjects ==
    {<<>>}
    \cup {<<Entry(k, v)>> : k \in LeftItems, v \in JsonValues}
    \cup {<<Entry(k1, v1), Entry(k2, v2)>> :
             <<k1, k2>> \in {p \in LeftItems \X LeftItems : p[1] # p[2]},
             <<v1, v2>> \in JsonValues \X JsonValues}

JsonTexts == [o \in JsonObjects |-> JsonStringify(o)]

JsonParsed ==
    [t \in {JsonTexts[o] : o \in JsonObjects} |-> CHOOSE o \in JsonObjects : JsonTexts[o] = t]

JsonParse(text) == JsonParsed[text]

----------------------------------------------------------------------------
(* Claims *)

\* C1: for an exam with N questions the remaining time is 90*N when the
\* session starts; while the session lasts it never increases and never goes
\* below 0; a tick lowers it by exactly 1 when positive and leaves 0 at 0.
C1_TimerContract ==
    [][ /\ (exam = NoExam /\ exam' # NoExam)
            => timeLeft' = 90 * QuestionCount(exam')
        /\ (exam # NoExam /\ exam' # NoExam)
            => (timeLeft' <= timeLeft /\ timeLeft' >= 0)
        /\ TimerTick
            => timeLeft' = (IF timeLeft > 0 THEN timeLeft - 1 ELSE 0)
        /\ TickTime(0) = 0 ]_vars

\* C1 witness: a countdown has reached 0 in a session that recorded answers.
C1_Witness == mounted /\ timeLeft = 0 /\ DOMAIN answers # {}

\* C2: when the user selects label L for left item X of a matching question,
\* the JSON answer stored for the question has under key X the response text
\* bound to L at load, not L itself; so it is after every change of X.
C2_MatchingStoresText ==
    [][ \A X \in LeftItems, L \in LabelSet :
            (matchingState' # matchingState /\ MatchingChange(X, L)) =>
                LET q      == currentQuestion.id
                    stored == JsonParse(answers'[q])
                IN /\ ObjHas(stored, X)
                   /\ ObjGet(stored, X) = RightText(matchingOptions[q], L)
                   /\ ObjGet(stored, X) \in {"r1", "r2"}
                   /\ ObjGet(stored, X) # L
                   /\ matchingOptions' = matchingOptions ]_vars

\* C2 witness: l1 was selected, then l2, then l1 again with another label:
\* the stored answer carries l1's latest text.
C2_Witness ==
    /\ mounted
    /\ "q1" \in DOMAIN matchingState
    /\ "q1" \in DOMAIN answers
    /\ Len(matchingState["q1"]) = 2
    /\ matchingState["q1"][1].key = "l1"
    /\ ObjGet(matchingState["q1"], "l1") = "B"
    /\ ObjGet(JsonParse(answers["q1"]), "l1") = RightText(matchingOptions["q1"], "B")
    /\ ObjGet(JsonParse(answers["q1"]), "l2") \in LabelSet

\* C3 (as claimed): the stored answer of a matching question maps every left
\* item selected so far to the text of its selected label; no value in it is
\* a display label.
C3_AllValuesAreTexts ==
    \A q \in DOMAIN matchingState :
        LET stored == JsonParse(answers[q])
        IN /\ ObjKeys(stored) = ObjKeys(matchingState[q])
           /\ \A k \in ObjKeys(matchingState[q]) :
                 /\ ObjGet(stored, k) = RightText(matchingOptions[q], ObjGet(matchingState[q], k))
                 /\ ObjGet(stored, k) \notin LabelSet

\* C4: recording an answer for a question that already has one leaves exactly
\* the new answer as that question's entry; the earlier answer is gone.
C4_RecordOverwrites ==
    [][ \A B \in AnswerValues :
            /\ (mounted /\ ~disabled /\ B \in InputValues(currentQuestion)) =>
                   LET after == handleInputChange(answers, currentQuestion.id, B)
                   IN  /\ DOMAIN after = DOMAIN answers \cup {currentQuestion.id}
                       /\ after[currentQuestion.id] = B
                       /\ \A q \in DOMAIN answers \ {currentQuestion.id} : after[q] = answers[q]
            /\ RecordAnswer(B) =>
                   /\ DOMAIN answers' = DOMAIN answers \cup {currentQuestion.id}
                   /\ answers'[currentQuestion.id] = B
                   /\ \A q \in DOMAIN answers \ {currentQuestion.id} : answers'[q] = answers[q] ]_vars

\* C4 witness: a fill-in-blank field shows "" only until text is typed, so an
\* entry "" was recorded over an earlier "x".
C4_Witness ==
    /\ exam.id = "e2"
    /\ "q2" \in DOMAIN answers
    /\ answers["q2"] = ""

\* C5: for an exam with N >= 1 questions the current index stays within
\* [0, N-1]; Previous at index 0 and Next at index N-1 leave it unchanged.
C5_IndexInRange ==
    mounted =>
        LET N == QuestionCount(exam)
        IN /\ N >= 1
           /\ currentIndex \in 0..(N - 1)
           /\ PreviousIndex(currentIndex) = (IF currentIndex = 0 THEN 0 ELSE currentIndex - 1)
           /\ NextIndex(currentIndex, N) = (IF currentIndex = N - 1 THEN N - 1 ELSE currentIndex + 1)

\* C5 witness: the last question of an exam with several questions is shown
\* and the palette, from which any question can be reached, is open.
C5_Witness ==
    /\ mounted
    /\ QuestionCount(exam) >= 2
    /\ currentIndex = QuestionCount(exam) - 1
    /\ isPaletteOpen

Copies(c, bag) == IF BagIn(c, bag) THEN CopiesIn(c, bag) ELSE 0

\* The calls a step issues.
Issued == {c \in BagToSet(calls') : Copies(c, calls') > Copies(c, calls)}

\* C6: Submit is accepted whatever the number of answered questions, and the
\* call it issues carries the loaded exam and the answers mapping as it is:
\* an entry for each question the user gave an answer to and for no other.
C6_PartialSubmit ==
    [][ /\ \A c \in Issued :
              /\ c.kind = "grade"
              /\ c.exam = exam
              /\ c.answers = answers
              /\ DOMAIN c.answers \subseteq QuestionIds(exam)
        /\ (FinishExam \/ SubmitAll) => Issued # {}
        /\ (mounted /\ exam' = exam /\ DOMAIN answers' # DOMAIN answers)
              => /\ \E v \in AnswerValues : RecordAnswer(v)
                 /\ DOMAIN answers' = DOMAIN answers \cup {currentQuestion.id} ]_vars

\* C6 witness: a grade call is outstanding for an exam of two questions with
\* one of them answered.
C6_Witness ==
    \E c \in Outstanding("grade") :
        /\ QuestionCount(c.exam) = 2
        /\ Cardinality(DOMAIN c.answers) = 1

\* C7 (as claimed): while the caller is busy no entry point changes the
\* attempt's index, answers, flags or matching state.
C7_BusyRejectsAll ==
    [][ (disabled /\ mounted /\ exam' = exam)
            => UNCHANGED <<currentIndex, answers, flags, matchingState>> ]_vars

\* C8 (as claimed): at most one service call is outstanding at any time.
C8_OneCallAtATime == BagCardinality(calls) <= 1

\* C9 (as claimed): no timer tick changes the remaining time while a grading
\* call is outstanding.
C9_NoTickWhileGrading ==
    [][ TimerTick => Outstanding("grade") = {} ]_vars

\* The attempt on the loaded exam has been handed to the caller: its grade
\* call is outstanding or its results are displayed.
Submitted ==
    /\ mounted
    /\ \/ \E c \in Outstanding("grade") : c.exam = exam
       \/ (results # NoResults /\ results.examId = exam.id)

\* C10 (as claimed): once submitted, the attempt's answers, index, flags and
\* remaining time never change.
C10_SubmittedIsTerminal ==
    [][ (Submitted /\ exam' = exam)
            => UNCHANGED <<answers, currentIndex, flags, timeLeft>> ]_vars

\* C11 (as claimed): whenever the exam under attempt becomes a different
\* exam, by a load from history or by a parse call succeeding, the session
\* starts afresh for the new exam: index 0, no answers, no flags, no matching
\* selections and 90 seconds for each of its questions.
C11_FreshSessionOnSwap ==
    [][ (exam' # NoExam /\ exam'.id # exam.id) =>
            /\ currentIndex' = 0
            /\ answers' = EmptyMap
            /\ flags' = {}
            /\ matchingState' = EmptyMap
            /\ timeLeft' = 90 * QuestionCount(exam') ]_vars

\* C12: the timer reaching 0 submits nothing: a grade call is issued only by
\* Finish Exam or Submit All, a tick issues no call and leaves the busy flag
\* alone, and at remaining time 0 an idle session still accepts answers,
\* navigation, flagging and submission.
C12_NoAutoSubmit ==
    [][ /\ Issued # {} => (FinishExam \/ SubmitAll)
        /\ TimerTick => (calls' = calls /\ loadingStatus' = loadingStatus)
        /\ (rendered /\ timeLeft = 0 /\ ~disabled) =>
              /\ InputValues(currentQuestion) # {}
              /\ \A v \in InputValues(currentQuestion) : ENABLED RecordAnswer(v)
              /\ ENABLED ToggleFlag
              /\ ENABLED TogglePalette
              /\ currentIndex > 0 => ENABLED Previous
              /\ currentIndex < QuestionCount(exam) - 1 => ENABLED NextQuestion
              /\ currentIndex = QuestionCount(exam) - 1 => ENABLED FinishExam
              /\ isPaletteOpen =>
                    (ENABLED SubmitAll /\ \A idx \in 0..(QuestionCount(exam) - 1) : ENABLED PaletteJump(idx)) ]_vars

\* C12 witness: the countdown is at 0 and an attempt with a recorded answer
\* and a flag has been handed in for grading.
C12_Witness ==
    /\ rendered
    /\ timeLeft = 0
    /\ flags # {}
    /\ \E c \in Outstanding("grade") : c.exam = exam /\ c.answers = answers /\ DOMAIN answers # {}

C14_GradeFailureAllowsRetry ==
    [][ /\ \A c \in Outstanding("grade") :
              GradeFails(c) =>
                  /\ UNCHANGED <<exam, answers, flags, currentIndex, results>>
                  /\ error' = GradeErrorMessage
                  /\ ~disabled'
                  /\ exam # NoExam =>
                        /\ exam' # NoExam
                        /\ BagCardinality(calls') < MaxOutstanding
                        /\ GradeCall(exam', answers') = GradeCall(exam, answers)
        /\ (FinishExam \/ SubmitAll) => Issued = {GradeCall(exam, answers)} ]_vars

\* C14 witness: after a failed grading the attempt, with its recorded answer,
\* has been submitted again and that call is the only one outstanding.
C14_Witness ==
    /\ rendered
    /\ error = GradeErrorMessage
    /\ results = NoResults
    /\ loadingStatus = "grading"
    /\ BagCardinality(calls) = 1
    /\ DOMAIN answers # {}
    /\ Outstanding("grade") = {GradeCall(exam, answers)}

\* The calls that return in a step.
Returned == {c \in BagToSet(calls) : Copies(c, calls') < Copies(c, calls)}

C16_ShuffleIsStable ==
    [][ /\ rendered =>
              /\ DOMAIN matchingOptions = MatchingIds(exam)
              /\ \A q \in MatchingIds(exam) :
                    LET options == matchingOptions[q]
                        pairs   == QuestionById(exam, q).matchingPairs
                    IN /\ Len(options) = Len(pairs)
                       /\ \A i \in 1..Len(options) : options[i].id = Labels[i]
                       /\ \E p \in [1..Len(pairs) -> 1..Len(pairs)] :
                             /\ \A i, j \in 1..Len(pairs) : p[i] = p[j] => i = j
                             /\ \A i \in 1..Len(pairs) : options[i].text = pairs[p[i]].right
              /\ \A t \in EditTitles :
                    /\ handleRenameLoaded(exam, exam.id, t).id = exam.id
                    /\ handleRenameLoaded(exam, exam.id, t).questions = exam.questions
        /\ (exam # NoExam /\ exam'.id = exam.id) => matchingOptions' = matchingOptions ]_vars

\* C16 witness: in one attempt on the matching exam, whose responses were
\* shuffled out of pair order, a parse call failed (a busy transition), a
\* second went by, a selection was made and a question flagged.
C16_Witness ==
    /\ rendered
    /\ matchingOptions["q1"][1].text = "r2"
    /\ error \in ParseErrorMessages
    /\ timeLeft < QuestionCount(exam) * SecondsPerQuestion
    /\ "q1" \in DOMAIN matchingState
    /\ flags # {}

\* The fields of exam b are those of exam a, but for the title.
SameButTitle(a, b) ==
    /\ b.id = a.id
    /\ b.createdAt = a.createdAt
    /\ b.questions = a.questions

\* C17: renaming exam id X to a new title changes the title, and only the
\* title, of the history entries with id X and of the loaded exam when its
\* id is X; every other exam and the order of the list are unchanged.
C17_RenameChangesOnlyTitle ==
    [][ /\ \A i \in 1..Len(history), t \in EditTitles :
              RenameExam(i, t) =>
                  LET X == history[i].id
                  IN /\ Len(history') = Len(history)
                     /\ \A j \in 1..Len(history) :
                           IF history[j].id = X
                           THEN SameButTitle(history[j], history'[j]) /\ history'[j].title = t
                           ELSE history'[j] = history[j]
                     /\ UNCHANGED <<loadingStatus, results, error, calls, sessionVars>>
        /\ \A X \in HistoryIds(history) \cup {exam.id}, t \in EditTitles :
              LET renamed == handleRenameLoaded(exam, X, t)
                  list    == handleRenameHistory(history, X, t)
              IN /\ (exam # NoExam /\ exam.id = X) => (SameButTitle(exam, renamed) /\ renamed.title = t)
                 /\ (exam = NoExam \/ exam.id # X) => renamed = exam
                 /\ Len(list) = Len(history)
                 /\ \A j \in 1..Len(history) :
                       IF history[j].id = X
                       THEN SameButTitle(history[j], list[j]) /\ list[j].title = t
                       ELSE list[j] = history[j] ]_vars

\* C17 witness: a parsed exam is first in the history, the entry after it was
\* renamed and the last entry has the title it was stored with.
C17_Witness ==
    /\ Len(history) = 3
    /\ history[1].id = "e4"
    /\ history[1].title = "t4"
    /\ history[2].id = "e1"
    /\ history[2].title = "n"
    /\ history[3] = Exam("e3", "t3")

\* List b is list a without its entries of id X, the others in their order.
WithoutId(a, b, X) ==
    /\ \A k \in 1..Len(b) : b[k].id # X
    /\ Len(b) = Cardinality({j \in 1..Len(a) : a[j].id # X})
    /\ \E f \in [1..Len(b) -> 1..Len(a)] :
          /\ \A k \in 1..Len(b) : b[k] = a[f[k]]
          /\ \A k, l \in 1..Len(b) : k < l => f[k] < f[l]

\* C18: deleting exam id X removes exactly the history entries with id X and
\* keeps the others in their order; the loaded exam, the displayed results
\* and the session state are not written, whichever exam is loaded.
C18_DeleteRemovesOnlyEntry ==
    [][ /\ \A i \in 1..Len(history) :
              DeleteExam(i) =>
                  /\ WithoutId(history, history', history[i].id)
                  /\ UNCHANGED <<loadingStatus, exam, results, error, calls, sessionVars>>
        /\ \A X \in HistoryIds(history) \cup {exam.id} :
              WithoutId(history, handleDeleteExam(history, X), X) ]_vars

\* C18 witness: of the three entries e4, e1, e3 the middle one was deleted,
\* and another exam of the list is under attempt.
C18_Witness ==
    /\ Len(history) = 2
    /\ history[1].id = "e4"
    /\ history[2].id = "e3"
    /\ rendered
    /\ exam.id = "e3"
    /\ flags # {}

\* C19: for a displayed result of score s out of t the percentage is
\* s / t * 100 rounded to the nearest integer; the grade is A+ from 90, A from
\* 80, B from 70, C from 60 and F below; the attempt is shown as passed
\* exactly when the percentage is at least 60, that is when the grade is not
\* F; and 1 of 2 is 50%, grade F, failed.
C19_GradeThresholds ==
    results # NoResults =>
        LET s   == results.score
            t   == results.totalPoints
            pct == percentage(results)
            g   == getGrade(pct)
        IN /\ 2 * (100 * s - pct * t) <= t
           /\ 2 * (pct * t - 100 * s) <= t
           /\ (g = "A+") = (pct >= 90)
           /\ (g = "A")  = (pct >= 80 /\ pct < 90)
           /\ (g = "B")  = (pct >= 70 /\ pct < 80)
           /\ (g = "C")  = (pct >= 60 /\ pct < 70)
           /\ (g = "F")  = (pct < 60)
           /\ isPassed(pct) = (pct >= 60)
           /\ isPassed(pct) = (g # "F")
           /\ (s = 1 /\ t = 2) => (pct = 50 /\ g = "F" /\ ~isPassed(pct))

\* C19 witness: the results of an attempt graded 6 of 10, the lowest pass,
\* are displayed.
C19_Witness ==
    /\ rendered
    /\ results # NoResults
    /\ results.score = 6
    /\ results.totalPoints = 10
    /\ getGrade(percentage(results)) = "C"

\* C20 (as claimed): the progress value is 100 * k / N rounded to the nearest
\* integer, k being the number of the exam's N questions with a non-empty
\* entry in the answers mapping -- the questions the palette marks answered.
C20_ProgressCountsNonEmpty ==
    rendered =>
        LET N == QuestionCount(exam)
            k == Cardinality({q \in QuestionIds(exam) : q \in DOMAIN answers /\ answers[q] # ""})
        IN /\ k = Cardinality({q \in QuestionIds(exam) : isAnswered(q)})
           /\ 2 * (100 * k - progress * N) <= N
           /\ 2 * (progress * N - 100 * k) <= N

StructureMessage == "Could not structure the exam content."

\* C21 (as claimed): a parse that fails for want of a credential and a parse
\* that fails on malformed service output leave the same error: the message
\* that the exam content could not be structured.
C21_OneParseError ==
    [][ /\ \A text \in RawTexts :
              (StartParse(text) /\ API_KEY = "") => error' = StructureMessage
        /\ \A c \in BagToSet(calls) :
              ParseFails(c, StructureMessage) => error' = StructureMessage ]_vars

\* C22 (as claimed): in every state of a session a recorded answer of a
\* multiple-choice question is one of its option strings and a recorded
\* answer of a true/false question is "True" or "False".
C22_AnswersFitQuestionType ==
    rendered =>
        \A i \in 1..Len(exam.questions) :
            LET q == exam.questions[i]
            IN q.id \in DOMAIN answers =>
                  /\ q.type = "MCQ" => answers[q.id] \in {q.options[k] : k \in 1..Len(q.options)}
                  /\ q.type = "TRUE_FALSE" => answers[q.id] \in {"True", "False"}

\* C23: recording an answer for the question shown leaves the current index,
\* the remaining time, the flag set and the answers recorded for every other
\* question as they were.
C23_RecordAnswerFrame ==
    [][ \A v \in AnswerValues :
            RecordAnswer(v) =>
                /\ currentIndex' = currentIndex
                /\ timeLeft' = timeLeft
                /\ flags' = flags
                /\ DOMAIN answers' \subseteq DOMAIN answers \cup {currentQuestion.id}
                /\ \A q \in DOMAIN answers \ {currentQuestion.id} :
                      q \in DOMAIN answers' /\ answers'[q] = answers[q] ]_vars

\* C23 witness: with the first question answered and flagged and a second of
\* the countdown gone, the second question was answered.
C23_Witness ==
    /\ exam.id = "e2"
    /\ currentIndex = 1
    /\ flags = {"q1"}
    /\ timeLeft = 2 * SecondsPerQuestion - 1
    /\ "q1" \in DOMAIN answers /\ answers["q1"] = "True"
    /\ "q2" \in DOMAIN answers /\ answers["q2"] = "x"

\* C24: the flag button adds the shown question's id to the flag set when it
\* is absent and removes it when present, so that two toggles restore the
\* set; no other id's flag changes; and neither the answers nor the arguments
\* of a grade call depend on the flags: a toggle leaves the answers and the
\* outstanding calls alone, and a grade call carries the loaded exam and the
\* answers mapping, the same whatever is flagged.
C24_ToggleFlag ==
    [][ /\ rendered =>
              LET id == currentQuestion.id
              IN /\ ToggleFlagSet(ToggleFlagSet(flags, id), id) = flags
                 /\ id \in ToggleFlagSet(flags, id) <=> id \notin flags
                 /\ ToggleFlagSet(flags, id) \ {id} = flags \ {id}
        /\ ToggleFlag =>
              /\ flags' \ {currentQuestion.id} = flags \ {currentQuestion.id}
              /\ currentQuestion.id \in flags' <=> currentQuestion.id \notin flags
              /\ answers' = answers
              /\ calls' = calls
        /\ \A c \in Issued :
              c.kind = "grade" => c = [kind |-> "grade", exam |-> exam, answers |-> answers] ]_vars

\* C24 witness: the first question's flag was set, the second's was set and
\* removed again (the palette shows it unflagged), and the attempt was
\* submitted with an answer recorded.
C24_Witness ==
    /\ exam.id = "e2"
    /\ flags = {"q1"}
    /\ currentIndex = 1
    /\ answers = MapPut(EmptyMap, "q2", "x")
    /\ Outstanding("grade") = {GradeCall(exam, answers)}

NoDuplicateIds(h) == \A i, j \in 1..Len(h) : h[i].id = h[j].id => i = j

\* C25: a successful parse puts the new exam at the front of the history
\* when no entry has its id and leaves the history alone when one has; and a
\* history without duplicate ids stays without duplicate ids through every
\* parse success, rename, delete and load.
C25_HistoryIdsUnique ==
    /\ [](NoDuplicateIds(history))
    /\ [][ /\ \A i \in 1..Len(history) : AddToHistory(history, history[i]) = history
           /\ \A e \in ParsedExams :
                 e.id \notin HistoryIds(history) => AddToHistory(history, e) = <<e>> \o history
           /\ \A c \in BagToSet(calls), e \in ParsedExams :
                 ParseSucceeds(c, e) =>
                     history' = (IF e.id \in HistoryIds(history) THEN history
                                 ELSE <<e>> \o history) ]_vars

\* C25 witness: an exam was parsed and put at the front, then renamed, an
\* older entry was deleted and the remaining old one was loaded.
C25_Witness ==
    /\ Len(history) = 2
    /\ history[1].id = "e4" /\ history[1].title = "n"
    /\ history[2] = Exam("e3", "t3")
    /\ exam = Exam("e3", "t3")

\* C26: each row of the results breakdown shows the verdict of the feedback
\* item whose questionId is the row's question id, wherever the item stands
\* in the feedback list; a question with no such item is shown as incorrect
\* with 0 points.
C26_FeedbackPairedById ==
    (results # NoResults /\ exam # NoExam) =>
        \A idx \in 1..Len(exam.questions) :
            LET q       == exam.questions[idx]
                row     == Breakdown[idx]
                entries == {k \in 1..Len(results.feedback) : results.feedback[k].questionId = q.id}
            IN /\ row.questionId = q.id
               /\ entries # {} =>
                     \E k \in entries :
                         /\ row.isCorrect = results.feedback[k].isCorrect
                         /\ row.pointsEarned = results.feedback[k].pointsEarned
               /\ entries = {} => (row.isCorrect = FALSE /\ row.pointsEarned = 0)

\* C26 witness: the results shown carry the second question's item first,
\* correct with 1 point, then an item for a question the exam lacks, and no
\* item for the first question.
C26_Witness ==
    /\ results # NoResults
    /\ exam.id = "e2"
    /\ results.feedback = <<FeedbackItem("q2", TRUE, 1), FeedbackItem("q9", TRUE, 1)>>
    /\ Breakdown[1] = [questionId |-> "q1", isCorrect |-> FALSE, pointsEarned |-> 0]
    /\ Breakdown[2] = [questionId |-> "q2", isCorrect |-> TRUE, pointsEarned |-> 1]

\* C27: the exam a successful parse returns has the id and the createdAt
\* assigned locally, whatever id or createdAt the service's output carries,
\* and the title and the questions of the service's output.
C27_ParsedExamFields ==
    [][ /\ \A o \in ServiceOutputs, id \in NewIds :
              LET e == ParsedExam(o, id, CreatedAt(id))
              IN /\ e.id = id
                 /\ e.createdAt = CreatedAt(id)
                 /\ e.title = o.title
                 /\ e.questions = o.questions
        /\ \A c \in BagToSet(calls), e \in ParsedExams :
              ParseSucceeds(c, e) =>
                  /\ exam'.id \in NewIds
                  /\ exam'.id \notin HistoryIds(history)
                  /\ exam'.createdAt = CreatedAt(exam'.id)
                  /\ \E o \in ServiceOutputs :
                        exam'.title = o.title /\ exam'.questions = o.questions ]_vars

\* C27 witness: a parse succeeded while the service could answer with an id
\* and a createdAt of its own, those of a stored exam; the exam loaded is the
\* new one, and the stored exam is still in the history.
C27_Witness ==
    /\ \E o \in ServiceOutputs : "id" \in DOMAIN o /\ o.id \in HistoryIds(history)
    /\ exam.id = "e4"
    /\ exam.createdAt = 4
    /\ history[1] = exam
    /\ Len(history) = 3

\* C28 (as claimed): the copy, cut, paste and context-menu handlers are
\* installed, once, exactly while an attempt is active -- an exam is loaded
\* and its attempt has not been submitted -- and not otherwise.
C28_SuppressionWhileActive ==
    listeners = (IF mounted /\ ~Submitted THEN 1 ELSE 0)

\* C29 (as claimed): with no credential, a parse or a submission issues no
\* call and sets the error message and the credential banner; and no step
\* but a parse or a submission by the user issues a call.
C29_NoCredentialNoCall ==
    [][ /\ (API_KEY = "" /\ (FinishExam \/ SubmitAll \/ \E text \in RawTexts : StartParse(text))) =>
              /\ calls' = calls
              /\ error' = MissingKeyMessage
              /\ apiKeyMissing'
        /\ Issued # {} => (FinishExam \/ SubmitAll \/ \E text \in RawTexts : StartParse(text)) ]_vars

C31_ResultsNeedExam == results # NoResults => exam # NoExam

\* C32 (as claimed): the grading results displayed over a loaded exam were
\* produced by a grade call on an exam with the loaded exam's id.
C32_ResultsOfLoadedExam ==
    (results # NoResults /\ exam # NoExam) => results.examId = exam.id

\* C33 (as claimed): while a parse or grade call is outstanding the
\* application is busy: loadingStatus is not idle.
C33_BusyCoversCalls == calls # EmptyBag => loadingStatus # "idle"

\* The values the controls of question q can record.
Recordable(q) ==
    CASE q.type = "MCQ"        -> {q.options[k] : k \in 1..Len(q.options)}
      [] q.type = "TRUE_FALSE" -> {"True", "False"}
      [] OTHER                 -> Texts

\* C34 (as claimed): each key of the answers a grade call carries is the id
\* of a question of the exam it carries, with a value recorded in the attempt
\* on that exam -- hence a value that question's controls can record; and
\* the answers of an attempt do not outlive its exam.
C34_AnswersOfGradedExam ==
    [][ /\ \A c \in Issued :
              c.kind = "grade" =>
                  \A k \in DOMAIN c.answers :
                      /\ k \in QuestionIds(c.exam)
                      /\ c.answers[k] \in Recordable(QuestionById(c.exam, k))
        /\ (exam # NoExam /\ exam'.id # exam.id) => answers' = EmptyMap ]_vars

\* C35: choosing "-" for left item X of a matching question stores "" as X's
\* value in the serialized answer and "" as X's label in the matching state,
\* and the question keeps its entry in the answers mapping.
C35_DashStoresEmpty ==
    [][ \A X \in LeftItems :
            MatchingChange(X, "") =>
                LET q == currentQuestion.id
                IN /\ q \in DOMAIN answers'
                   /\ answers'[q] # ""
                   /\ ObjHas(JsonParse(answers'[q]), X)
                   /\ ObjGet(JsonParse(answers'[q]), X) = ""
                   /\ ObjHas(matchingState'[q], X)
                   /\ ObjGet(matchingState'[q], X) = ""
                   /\ DOMAIN answers' = DOMAIN answers ]_vars

\* C35 witness: l1 was given a label and then "-": its label and its stored
\* value are "", and the question's entry is the text of that object.
C35_Witness ==
    /\ rendered
    /\ "q1" \in DOMAIN matchingState
    /\ matchingState["q1"] = <<Entry("l1", "")>>
    /\ "q1" \in DOMAIN answers
    /\ answers["q1"] = "{\"l1\":\"\"}"

\* C36: committing a rename with an empty or whitespace-only title does not
\* call the rename operation -- the history and its stored text are unchanged
\* and editing mode ends -- so the history list's rename never leaves a
\* blank title.
C36_BlankRenameIgnored ==
    /\ [](\A j \in 1..Len(history) : Trim(history[j].title) # "")
    /\ [][ \A i \in 1..Len(history), t \in EditTitles :
               (SaveTitle(i, t) /\ Trim(t) = "") =>
                   /\ history' = history
                   /\ exam_history' = exam_history
                   /\ exam' = exam
                   /\ editingId' = "null" ]_vars

\* C36 witness: the first row was renamed, and the title field of the second
\* row is open, where a blank title can be committed.
C36_Witness ==
    /\ Len(history) = 2
    /\ history[1].title = "n"
    /\ editingId = history[2].id
    /\ history[2].title = "t3"
    /\ \E t \in EditTitles : Trim(t) = ""

====
